---- MODULE Spec2Model ----
(***************************************************************************)
(* Principal component analysis as narrated in                             *)
(* learning/unsupervised/principal_component_analysis.ipynb: z-score       *)
(* normalisation, covariance matrix, eigendecomposition sorted by          *)
(* decreasing eigenvalue, selection of the top k eigenvectors, projection, *)
(* and the explained variance ratio with its cumulative sum.               *)
(*                                                                         *)
(* Numbers are exact rationals <<num, den>> with den > 0 in lowest terms;  *)
(* <<0, 0>> stands for the result of a division by zero (NaN).  A unit     *)
(* eigenvector is kept as an integer direction w, standing for w/|w|, so   *)
(* that a projected coordinate is a pair [q, s] standing for q / sqrt(s).  *)
(***************************************************************************)
EXTENDS Integers, Sequences, FiniteSets, TLC

VARIABLES dataset, pc, ran, policy, centered, scaled, Xp, Sigma, pairs,
          k, basis, Z, ratioAll, cumulative, evr, err

vars == <<dataset, pc, ran, policy, centered, scaled, Xp, Sigma, pairs,
          k, basis, Z, ratioAll, cumulative, evr, err>>

(* ------------------------------ bounds -------------------------------- *)
MaxN == 2
MaxD == 2
MaxDir == 2

\* feature values of the generated datasets, and the components of the
\* eigenvector directions the solver may return
Vals == {0, 1}
DirVals == (0 - MaxDir)..MaxDir
Scenario == << <<2, 0>>, <<0, 2>>, <<-2, 0>>, <<0, -2>> >>
FullRank == << <<1, 0>>, <<0, 1>>, <<0, 0>> >>
Datasets ==
    UNION { UNION { {[r \in 1..n |-> [j \in 1..dd |-> f[<<r, j>>]]] :
                        f \in [(1..n) \X (1..dd) -> Vals]} :
                    dd \in 1..MaxD } : n \in 1..MaxN }
    \cup {Scenario, FullRank}

(* --------------------------- exact rationals -------------------------- *)
Abs(a) == IF a < 0 THEN 0 - a ELSE a

RECURSIVE GCD(_, _)
GCD(a, b) == IF b = 0 THEN a ELSE GCD(b, a % b)

NaN == <<0, 0>>
Zero == <<0, 1>>
One == <<1, 1>>
Rat(i) == <<i, 1>>
IsNum(a) == a[2] # 0

Norm(n, d) ==
    IF d = 0 THEN NaN
    ELSE LET g == GCD(Abs(n), Abs(d))
             s == IF d < 0 THEN 0 - 1 ELSE 1
         IN  <<(s * n) \div g, (s * d) \div g>>

RAdd(a, b) == IF IsNum(a) /\ IsNum(b)
              THEN Norm(a[1] * b[2] + b[1] * a[2], a[2] * b[2]) ELSE NaN
RSub(a, b) == IF IsNum(a) /\ IsNum(b)
              THEN Norm(a[1] * b[2] - b[1] * a[2], a[2] * b[2]) ELSE NaN
RMul(a, b) == IF IsNum(a) /\ IsNum(b)
              THEN Norm(a[1] * b[1], a[2] * b[2]) ELSE NaN
RDiv(a, b) == IF IsNum(a) /\ IsNum(b)
              THEN Norm(a[1] * b[2], a[2] * b[1]) ELSE NaN
RLeq(a, b) == IsNum(a) /\ IsNum(b) /\ a[1] * b[2] <= b[1] * a[2]
RLess(a, b) == IsNum(a) /\ IsNum(b) /\ a[1] * b[2] < b[1] * a[2]

IsSquare(m) == \E r \in 0..m : r * r = m
ISqrt(m) == CHOOSE r \in 0..m : r * r = m
HasRSqrt(a) == IsNum(a) /\ a[1] >= 0 /\ IsSquare(a[1]) /\ IsSquare(a[2])
RSqrt(a) == <<ISqrt(a[1]), ISqrt(a[2])>>

RECURSIVE RSumTo(_, _)
RSumTo(f, m) == IF m = 0 THEN Zero ELSE RAdd(RSumTo(f, m - 1), f[m])
RSum(f) == RSumTo(f, Len(f))

(* ------------------------------ shapes -------------------------------- *)
NumFeatures == Len(dataset[1])

(* ----------------- Step 1: z-score normalisation ---------------------- *)
Mean(X, j) == RDiv(RSum([r \in 1..Len(X) |-> Rat(X[r][j])]), Rat(Len(X)))

Center(X) ==
    [r \in 1..Len(X) |-> [j \in 1..Len(X[1]) |-> RSub(Rat(X[r][j]), Mean(X, j))]]

Variance(X, j) ==
    LET C == Center(X)
    IN  RDiv(RSum([r \in 1..Len(X) |-> RMul(C[r][j], C[r][j])]), Rat(Len(X)))

\* sigma_j is the square root of the population variance; the exact
\* arithmetic keeps to datasets whose sigma_j are rational
HasSigma(X) == \A j \in 1..Len(X[1]) : HasRSqrt(Variance(X, j))
StdDev(X, j) == RSqrt(Variance(X, j))

\* z = (x - mu) / sigma.  With sigma = 0 the quotient is 0/0; zs is the
\* divisor actually used for such a column: Zero (the formula as written,
\* giving NaN) or One (the scaler leaving the centered column unscaled).
ZScore(X, zs) ==
    [r \in 1..Len(X) |-> [j \in 1..Len(X[1]) |->
        RDiv(Center(X)[r][j],
             IF StdDev(X, j) = Zero THEN zs ELSE StdDev(X, j))]]

(* ----------------- Step 2: covariance matrix -------------------------- *)
\* Sigma = (1/n) X'X divides by n; the sample convention divides by n - 1
SampleDivisor(m) == m - 1
Divisor(m) == m

Covariance(M) ==
    [i \in 1..NumFeatures |-> [j \in 1..NumFeatures |->
        RDiv(RSum([r \in 1..Len(M) |-> RMul(M[r][i], M[r][j])]),
             Rat(Divisor(Len(M))))]]

(* ----------------- Step 3: eigendecomposition ------------------------- *)
RECURSIVE DotTo(_, _, _)
DotTo(u, v, m) == IF m = 0 THEN 0 ELSE DotTo(u, v, m - 1) + u[m] * v[m]
Dot(u, v) == DotTo(u, v, Len(u))

RECURSIVE GCDSeq(_, _)
GCDSeq(v, m) == IF m = 0 THEN 0 ELSE GCD(GCDSeq(v, m - 1), Abs(v[m]))

\* v and -v span the same axis: a direction is kept with its first non-zero
\* component positive
RECURSIVE Leading(_, _)
Leading(v, i) == IF v[i] # 0 THEN v[i] ELSE Leading(v, i + 1)

Dirs(d) == {v \in [1..d -> DirVals] : GCDSeq(v, d) = 1 /\ Leading(v, 1) > 0}

MatVec(S, v) ==
    [i \in 1..Len(S) |-> RSum([j \in 1..Len(v) |-> RMul(S[i][j], Rat(v[j]))])]

\* lambda of a direction v: v' S v / v' v
Rayleigh(S, v) ==
    LET Sv == MatVec(S, v)
    IN  RDiv(RSum([i \in 1..Len(v) |-> RMul(Rat(v[i]), Sv[i])]), Rat(Dot(v, v)))

\* S v = lambda v
IsEigenPair(S, lam, v) ==
    /\ IsNum(lam)
    /\ \A i \in 1..Len(v) : MatVec(S, v)[i] = RMul(lam, Rat(v[i]))

\* the directions v with S v = lambda v, as an enumerated set
EigenDirs(S) ==
    { u : u \in {v \in Dirs(Len(S)) :
                    \E lam \in {Rayleigh(S, v)} : IsEigenPair(S, lam, v)} }

\* the principal axes are orthogonal to each other
AnyPair(u, v) == TRUE
Orthogonal(u, v) == Dot(u, v) = 0

RECURSIVE LexLess(_, _, _)
LexLess(u, v, i) ==
    /\ i <= Len(u)
    /\ \/ u[i] < v[i]
       \/ u[i] = v[i] /\ LexLess(u, v, i + 1)

\* the sets of m mutually orthogonal directions of E, each listed once, in
\* the order the solver produces them
RECURSIVE Frames(_, _)
Frames(E, m) ==
    IF m = 0 THEN {<<>>}
    ELSE UNION { {Append(fr, v) :
                    v \in {w \in E :
                             /\ \A i \in 1..Len(fr) : Orthogonal(fr[i], w)
                             /\ Len(fr) > 0 => LexLess(fr[Len(fr)], w, 1)}} :
                 fr \in Frames(E, m - 1) }

\* the d pairs in the order the solver produced them
Decompositions(S) ==
    UNION { { [i \in 1..Len(S) |->
                 [lambda |-> Rayleigh(S, fr[i]), vec |-> fr[i], idx |-> i]] :
               fr \in Frames(E, Len(S)) } : E \in {EigenDirs(S)} }

Ascending(ps) == \A i \in 1..(Len(ps) - 1) : RLeq(ps[i].lambda, ps[i + 1].lambda)
Descending(ps) == \A i \in 1..(Len(ps) - 1) : RLeq(ps[i + 1].lambda, ps[i].lambda)

\* "sort eigenvectors by decreasing eigenvalues": the order of equal
\* eigenvalues is left open
SortedByEigenvalue(c) ==
    { s \in { [i \in 1..Len(c) |-> c[p[i]]] : p \in Permutations(1..Len(c)) } :
        Descending(s) }

(* ----------------- Step 4: top k components --------------------------- *)
Min(a, b) == IF a < b THEN a ELSE b

\* W_k = [v_1 .. v_k]: the eigenvectors of rank at most kk
TopK(ps, kk) == [i \in 1..Min(kk, Len(ps)) |-> ps[i].vec]

(* ----------------- Step 5: projection --------------------------------- *)
\* the matrix that is projected is the one handed to the covariance step
ProjectionInputCentered == centered
ProjectionInput == Xp

\* Z = X W_k with the columns of W_k of unit length: Z[r][i] = q / sqrt(s)
Project(M, W) ==
    [r \in 1..Len(M) |-> [i \in 1..Len(W) |->
        [q |-> RSum([j \in 1..Len(W[i]) |-> RMul(M[r][j], Rat(W[i][j]))]),
         s |-> Dot(W[i], W[i])]]]

(* ----------------- explained variance ratio --------------------------- *)
Lambdas(ps) == [i \in 1..Len(ps) |-> ps[i].lambda]

\* explained_variance_ratio_: each eigenvalue over the sum of all of them
\* (explained_variance_ is the eigenvalue itself)
UnnormalisedVariance(lams) == lams
ExplainedVarianceRatio(lams) ==
    LET total == RSum(lams)
    IN  [i \in 1..Len(lams) |-> RDiv(lams[i], total)]

CumSum(f) == [i \in 1..Len(f) |-> RSumTo(f, i)]

(* ------------------------------ pipeline ------------------------------ *)
Stages == <<"Standardizer", "CovarianceEstimator",
            "EigendecompositionEngine", "SelectorProjector">>
Policies == {"center_only", "standardize"}

\* err is the tagged error an invocation ended with; the notebook raises none
Init ==
    /\ dataset \in Datasets
    /\ pc = "start"
    /\ ran = <<>>
    /\ policy = "unset"
    /\ centered = <<>>
    /\ scaled = <<>>
    /\ Xp = <<>>
    /\ Sigma = <<>>
    /\ pairs = <<>>
    /\ k = 0 - 1
    /\ basis = <<>>
    /\ Z = <<>>
    /\ ratioAll = <<>>
    /\ cumulative = <<>>
    /\ evr = <<>>
    /\ err = "none"

Standardize ==
    /\ pc = "start"
    /\ \E pol \in Policies, zs \in {Zero, One} :
         /\ pol = "standardize" => HasSigma(dataset)
         /\ policy' = pol
         /\ centered' = Center(dataset)
         /\ scaled' = IF pol = "standardize" THEN ZScore(dataset, zs) ELSE <<>>
         /\ Xp' = IF pol = "standardize" THEN ZScore(dataset, zs) ELSE Center(dataset)
    /\ ran' = Append(ran, Stages[1])
    /\ pc' = "standardized"
    /\ UNCHANGED <<dataset, Sigma, pairs, k, basis, Z, ratioAll, cumulative, evr, err>>

\* the covariance is computed from the output of the standardization step
CovarianceReadyEarly == pc \in {"start", "standardized"}
CovarianceReady == pc = "standardized"

ComputeCovariance ==
    /\ CovarianceReady
    /\ Sigma' = Covariance(Xp)
    /\ ran' = Append(ran, Stages[2])
    /\ pc' = "covariance"
    /\ UNCHANGED <<dataset, policy, centered, scaled, Xp, pairs, k, basis, Z,
                   ratioAll, cumulative, evr, err>>

EigenDecompose ==
    /\ pc = "covariance"
    /\ \E c \in Decompositions(Sigma) : \E s \in SortedByEigenvalue(c) : pairs' = s
    /\ ran' = Append(ran, Stages[3])
    /\ pc' = "eigen"
    /\ UNCHANGED <<dataset, policy, centered, scaled, Xp, Sigma, k, basis, Z,
                   ratioAll, cumulative, evr, err>>

SelectAndProject ==
    /\ pc = "eigen"
    /\ ratioAll' = ExplainedVarianceRatio(Lambdas(pairs))
    /\ cumulative' = CumSum(ratioAll')
    /\ \E kk \in 0..(NumFeatures + 1) :
         /\ k' = kk
         /\ basis' = TopK(pairs, kk)
         /\ Z' = Project(ProjectionInput, basis')
         /\ evr' = SubSeq(ratioAll', 1, Min(kk, Len(pairs)))
    /\ ran' = Append(ran, Stages[4])
    /\ pc' = "done"
    /\ UNCHANGED <<dataset, policy, centered, scaled, Xp, Sigma, pairs, err>>

Next == Standardize \/ ComputeCovariance \/ EigenDecompose \/ SelectAndProject

Spec == Init /\ [][Next]_vars

(* ============================== claims ================================ *)
NumSamples == Len(dataset)
AfterCovariance == pc \in {"covariance", "eigen", "done"}
AfterEigen == pc \in {"eigen", "done"}
ConstantColumn(j) == Variance(dataset, j) = Zero

C2_InvalidKRaised ==
    pc = "done" =>
        /\ (k < 1 \/ k > NumFeatures) <=> err = "InvalidK"
        /\ err = "InvalidK" => basis = <<>> /\ Z = <<>> /\ evr = <<>>
        /\ k \in 1..NumFeatures => Len(basis) = k

\* C3 (as stated): standardizing a dataset with a constant column under the
\* default policy fails with DegenerateFeature and returns no standardized
\* data; the column is never scaled silently.
C3_DegenerateFeatureRaised ==
    (pc # "start" /\ policy = "standardize" /\ \E j \in 1..NumFeatures : ConstantColumn(j))
        => err = "DegenerateFeature" /\ scaled = <<>>

C6_PopulationCovariance ==
    AfterCovariance =>
        /\ \A i, j \in 1..NumFeatures :
              RMul(Sigma[i][j], Rat(NumSamples)) =
                  RSum([r \in 1..NumSamples |-> RMul(Xp[r][i], Xp[r][j])])
        /\ (dataset = Scenario /\ policy = "center_only")
              => Sigma = << <<Rat(2), Zero>>, <<Zero, Rat(2)>> >>

C6_Witness == pc = "covariance" /\ dataset = Scenario /\ policy = "center_only"

\* C7 (as stated): for every decomposition the explained variance ratios of
\* all d components sum to 1 and their cumulative sequence is non-decreasing.
C7_RatiosSumToOne ==
    pc = "done" =>
        /\ Len(ratioAll) = NumFeatures
        /\ RSum(ratioAll) = One
        /\ \A i \in 1..(NumFeatures - 1) : RLeq(cumulative[i], cumulative[i + 1])

\* C7 (amended): for every decomposition whose eigenvalues have a positive
\* sum, the explained variance ratios of all d components sum to 1 and their
\* cumulative sequence is non-decreasing.
C7_RatiosSumToOneWhenPositive ==
    (pc = "done" /\ RLess(Zero, RSum(Lambdas(pairs)))) =>
        /\ Len(ratioAll) = NumFeatures
        /\ RSum(ratioAll) = One
        /\ \A i \in 1..(NumFeatures - 1) : RLeq(cumulative[i], cumulative[i + 1])

C7_Witness ==
    /\ pc = "done" /\ NumFeatures = 2
    /\ RLess(Zero, pairs[2].lambda)
    /\ RLess(pairs[2].lambda, pairs[1].lambda)
    /\ Len(ratioAll) = 2 /\ cumulative[2] = One

\* covariance of columns i and j of Z, a value q / sqrt(s)
ColMeanZ(i) == RDiv(RSum([r \in 1..NumSamples |-> Z[r][i].q]), Rat(NumSamples))
CovZ(i, j) ==
    [q |-> RDiv(RSum([r \in 1..NumSamples |-> RMul(RSub(Z[r][i].q, ColMeanZ(i)),
                                          RSub(Z[r][j].q, ColMeanZ(j)))]),
                Rat(NumSamples)),
     s |-> Z[1][i].s * Z[1][j].s]

\* C8: the columns of Z = X_centered * W_k are mutually uncorrelated: the
\* covariance of Z is diagonal and its i-th diagonal entry is the i-th
\* selected eigenvalue.
C8_ProjectionUncorrelated ==
    pc = "done" =>
        \A i, j \in 1..Len(basis) :
            /\ i # j => CovZ(i, j).q = Zero
            /\ i = j => RDiv(CovZ(i, i).q, Rat(Z[1][i].s)) = pairs[i].lambda

C8_Witness ==
    /\ pc = "done" /\ Len(basis) = 2
    /\ Sigma[1][2] # Zero
    /\ RLess(Zero, pairs[1].lambda)

\* C10: under either policy the matrix projected in Z = X * W_k is the matrix
\* the covariance matrix was computed from.
C10_SameMatrixProjected ==
    pc = "done" =>
        \E M \in {centered, scaled} :
            /\ M # <<>>
            /\ Sigma = Covariance(M)
            /\ Z = Project(M, basis)

C10_Witness ==
    /\ pc = "done" /\ policy = "standardize"
    /\ scaled # centered
    /\ Len(basis) >= 1

====
